---- MODULE Spec2Model ----
(***************************************************************************)
(* vckube: the membership cache (get_vm_names) and the remote command      *)
(* fan-out (cmd_sshcmd, cmd_remote_command, cmd_remote_command_print_      *)
(* result) of src/build/lib/vckube/__init__.py.                            *)
(*                                                                         *)
(* Strings are sequences of one-character strings, so that sorting,        *)
(* strip(), split(":") and the "+ '.a8.nl'" suffix are computed the way    *)
(* Python computes them.                                                   *)
(***************************************************************************)
EXTENDS Integers, Sequences, FiniteSets, TLC

VARIABLES
    vagrantfile,  \* the project's Vagrantfile: [exists, num]; num = <<n>> or <<>>
    osx,          \* what is_osx() answers on this host
    cache,        \* .cl/vmnames.pickle: [state, entries]
    pc,           \* position of the running command: "idle", "serial", "confirm", "pool"
    op,           \* the command that ran last or is running
    call,         \* the arguments of the running cmd_remote_command
    dir,          \* what the last get_vm_names call did and returned
    vmnames,      \* cmd_remote_command's local vmnames
    idx,          \* number of members the serial loop has finished
    remote,       \* how the remote hosts answer during this dispatch
    execLog,      \* the Remote Executor invocations of this dispatch, in order
    reports,      \* what this dispatch printed per member, in order
    pauses,       \* the sleeps and confirmation prompts of this dispatch, in order
    pool,         \* the ProcessPoolExecutor of this dispatch
    outcome,      \* how the command ended: [done, exc, aborted]
    prevDir,      \* dir of the call before, when two get_vm_names calls follow each other
    commandline,  \* the parsed command line: [args, parallel, wait]
    uploads,      \* the files cmd_reset has put on the members, in order
    workingdir,   \* commandline.workingdir: the stored value and the values
                  \* assigned to the property so far
    tries         \* the attempts a retry loop has made so far: [cnt, via, ok]

vars == <<vagrantfile, osx, cache, pc, op, call, dir, vmnames, idx, remote,
          execLog, reports, pauses, pool, outcome, prevDir, commandline, uploads, workingdir,
          tries>>

----------------------------------------------------------------------------
(* Bounds *)

\* largest instance count a Vagrantfile declares
MaxInstances == 10

\* largest member list a fan-out is explored for
MaxFanOut == 3

\* largest number of times cmd_connect_ssh is seen to try again
MaxSshRetries == 2

----------------------------------------------------------------------------
(* Strings *)

Digit == <<"0", "1", "2", "3", "4", "5", "6", "7", "8", "9">>

\* code points of the characters the model uses
Ord(c) ==
    CASE c = "\n" -> 10
      [] c = " " -> 32
      [] c = "." -> 46
      [] c = "0" -> 48 [] c = "1" -> 49 [] c = "2" -> 50 [] c = "3" -> 51
      [] c = "4" -> 52 [] c = "5" -> 53 [] c = "6" -> 54 [] c = "7" -> 55
      [] c = "8" -> 56 [] c = "9" -> 57
      [] c = ":" -> 58
      [] c = "a" -> 97 [] c = "b" -> 98 [] c = "c" -> 99 [] c = "d" -> 100
      [] c = "e" -> 101 [] c = "l" -> 108 [] c = "n" -> 110 [] c = "o" -> 111
      [] c = "r" -> 114 [] c = "s" -> 115 [] c = "w" -> 119

\* str(i) for i >= 0
RECURSIVE Str(_)
Str(i) == IF i < 10 THEN <<Digit[i + 1]>>
          ELSE Str(i \div 10) \o <<Digit[(i % 10) + 1]>>

\* int(s) for a string of decimal digits; <<>> where int() raises ValueError
RECURSIVE IntOf(_, _)
IntOf(s, acc) ==
    IF s = <<>> THEN acc ELSE IntOf(Tail(s), 10 * acc + (Ord(Head(s)) - Ord("0")))

ParseInt(s) ==
    IF s # <<>> /\ \A i \in DOMAIN s : s[i] \in {Digit[d] : d \in DOMAIN Digit}
    THEN <<IntOf(s, 0)>>
    ELSE <<>>

\* Python's s < t on strings
RECURSIVE StrLess(_, _)
StrLess(s, t) ==
    IF t = <<>> THEN FALSE
    ELSE IF s = <<>> THEN TRUE
    ELSE IF Head(s) = Head(t) THEN StrLess(Tail(s), Tail(t))
    ELSE Ord(Head(s)) < Ord(Head(t))

\* insert x into the sorted list l, after the elements that are not greater
RECURSIVE SortedInsert(_, _)
SortedInsert(x, l) ==
    IF l = <<>> THEN <<x>>
    ELSE IF StrLess(x, Head(l)) THEN <<x>> \o l
    ELSE <<Head(l)>> \o SortedInsert(x, Tail(l))

RECURSIVE SortedFrom(_, _)
SortedFrom(l, acc) ==
    IF l = <<>> THEN acc ELSE SortedFrom(Tail(l), SortedInsert(Head(l), acc))

\* a variant that returns the list in the order it was stored
UnsortedList(l) == l

\* sorted(l) for a list of strings
Sorted(l) == SortedFrom(l, <<>>)

Range(f) == {f[i] : i \in DOMAIN f}

----------------------------------------------------------------------------
(* The membership cache: get_num_instances, is_osx, get_vm_names *)

NoCache == [state |-> "absent", entries |-> <<>>]
CorruptCache == [state |-> "corrupt", entries |-> <<>>]
PickleOf(entries) == [state |-> "ok", entries |-> entries]

\* get_num_instances: int(...) of the text after "num_instances ="; int()
\* raises ValueError when no number stands there. It never returns None.
get_num_instances(vf) ==
    IF vf.num = <<>> THEN [exc |-> "ValueError", val |-> <<>>]
    ELSE [exc |-> "none", val |-> vf.num]

\* a variant with the two platform prefixes exchanged
NamePrefixSwapped(o) == IF o THEN <<"n", "o", "d", "e">> ELSE <<"c", "o", "r", "e">>

\* "core" + str(i) on OSX, "node" + str(i) elsewhere
NamePrefix(o) == IF o THEN <<"c", "o", "r", "e">> ELSE <<"n", "o", "d", "e">>

\* a variant of the loop that starts counting at 0: range(0, numinstances)
SynthNamesFromZero(n, o) ==
    [i \in 1..n |-> [name |-> NamePrefix(o) \o Str(i - 1), conf |-> "None"]]

\* for i in range(1, numinstances + 1): vmnames.append([prefix + str(i), None])
SynthNames(n, o) ==
    [i \in 1..n |-> [name |-> NamePrefix(o) \o Str(i), conf |-> "None"]]

\* [x[0] for x in vmnames]
NamesOf(entries) == [i \in DOMAIN entries |-> entries[i].name]

\* a variant that always writes the cache file
AlwaysWrite(entries) == TRUE

\* if len(vmnames) > 0: pickle.dump(...)
ShouldWriteCache(entries) == Len(entries) > 0

\* a variant that looks for the cache file in the wrong place and never finds it
CacheNeverFound(c) == FALSE

\* path.exists(picklepath)
CacheFileExists(c) == c.state # "absent"

\* what one get_vm_names call leaves behind
DirResult(ret, exc, c, hit, reads, queries, writes, attempts) ==
    [ret |-> ret, exc |-> exc, cache |-> c, hit |-> hit, countReads |-> reads,
     toolQueries |-> queries, cacheWrites |-> writes, attempts |-> attempts]

\* what the virtualization tool does on the first and on the second attempt
\* of one top-level get_vm_names call: "up" answers, "down" makes
\* vagrant.Vagrant().status() raise subprocess.CalledProcessError
ToolUp == <<"up", "up">>
ToolDownOnce == <<"down", "up">>
ToolDown == <<"down", "down">>
ToolBehaviours == {ToolUp, ToolDownOnce, ToolDown}

\* the machines "vagrant status" lists, each with its ssh_config
LiveMachines(o) ==
    [i \in 1..2 |-> [name |-> NamePrefix(o) \o Str(i), conf |-> "ssh_config"]]

\* lines 1278-1283: v.status() and, per machine, v.ssh_config(vm_name=...)
vagrant_status(tool, attempt, o) ==
    IF tool[attempt] = "down"
    THEN [exc |-> "CalledProcessError", entries |-> <<>>, queries |-> 1]
    ELSE [exc |-> "none", entries |-> LiveMachines(o), queries |-> 1]

\* lines 1267-1289: the names derived from the declared instance count.
\* get_num_instances raises ValueError where no count stands, and
\* range(1, numinstances + 1) on line 1271 raises TypeError for None, so the
\* "numinstances is None" branch of line 1277 follows a loop that has
\* already raised.
ResolveMembers(vf, o, c, tool, attempt) ==
    LET num == get_num_instances(vf) IN
    IF num.exc # "none"
    THEN DirResult(<<>>, num.exc, c, FALSE, 1, 0, 0, 1)
    ELSE IF num.val = <<>>
    THEN DirResult(<<>>, "TypeError", c, FALSE, 1, 0, 0, 1)
    ELSE
        LET synth == SynthNames(num.val[1], o)
            live == IF num.val = <<>>
                    THEN vagrant_status(tool, attempt, o)
                    ELSE [exc |-> "none", entries |-> <<>>, queries |-> 0]
            entries == synth \o live.entries
            c2 == IF ShouldWriteCache(entries) THEN PickleOf(entries) ELSE c
            w == IF ShouldWriteCache(entries) THEN 1 ELSE 0
        IN IF live.exc # "none"
           THEN DirResult(<<>>, live.exc, c, FALSE, 1, live.queries, 0, 1)
           ELSE DirResult(Sorted(NamesOf(entries)), "none", c2, FALSE, 1,
                          live.queries, w, 1)

\* a variant that takes the Vagrantfile for granted
VagrantfileAssumed(vf) == TRUE

\* os.path.exists(os.path.join(cwd, "Vagrantfile"))
HasVagrantfile(vf) == vf.exists

\* the try body of get_vm_names, lines 1252-1289
VmNamesTry(vf, o, c, tool, attempt) ==
    IF ~HasVagrantfile(vf)
    THEN DirResult(<<>>, "none", c, FALSE, 0, 0, 0, 1)
    ELSE IF CacheFileExists(c)
    THEN IF c.state = "corrupt"
         \* pickle.load raises; it is no subprocess.CalledProcessError
         THEN DirResult(<<>>, "UnpicklingError", c, FALSE, 0, 0, 0, 1)
         ELSE DirResult(Sorted(NamesOf(c.entries)), "none", c, TRUE, 0, 0, 0, 1)
    ELSE ResolveMembers(vf, o, c, tool, attempt)

\* get_vm_names(retry): the try body and its except clause, which catches
\* subprocess.CalledProcessError alone
RECURSIVE get_vm_names(_, _, _, _, _)
get_vm_names(vf, o, c, tool, retry) ==
    LET r == VmNamesTry(vf, o, c, tool, IF retry THEN 2 ELSE 1) IN
    IF r.exc # "CalledProcessError" THEN r
    ELSE IF retry THEN [r EXCEPT !.ret = <<>>, !.exc = "none"]
    ELSE LET r2 == get_vm_names(vf, o, r.cache, tool, TRUE)
         IN [r2 EXCEPT !.countReads = @ + r.countReads,
                       !.toolQueries = @ + r.toolQueries,
                       !.cacheWrites = @ + r.cacheWrites,
                       !.attempts = @ + r.attempts]

NoDir == DirResult(<<>>, "none", NoCache, FALSE, 0, 0, 0, 0)

----------------------------------------------------------------------------
(* Strings of the fan-out *)

Suffix == <<".", "a", "8", ".", "n", "l">>
HostOf(name) == name \o Suffix

IsSpace(c) == c \in {" ", "\n"}

RECURSIVE LStrip(_)
LStrip(s) == IF s # <<>> /\ IsSpace(Head(s)) THEN LStrip(Tail(s)) ELSE s

RECURSIVE RStrip(_)
RStrip(s) ==
    IF s # <<>> /\ IsSpace(s[Len(s)]) THEN RStrip(SubSeq(s, 1, Len(s) - 1)) ELSE s

\* s.strip()
Strip(s) == RStrip(LStrip(s))

\* c in s
Contains(s, c) == \E i \in DOMAIN s : s[i] = c

\* s.split(c): the pieces between the occurrences of c
RECURSIVE SplitFrom(_, _, _)
SplitFrom(s, c, piece) ==
    IF s = <<>> THEN <<piece>>
    ELSE IF Head(s) = c THEN <<piece>> \o SplitFrom(Tail(s), c, <<>>)
    ELSE SplitFrom(Tail(s), c, piece \o <<Head(s)>>)

Split(s, c) == SplitFrom(s, c, <<>>)

\* server.split(".")[0]
ShortName(host) == Split(host, ".")[1]

----------------------------------------------------------------------------
(* The remote hosts *)

Ok(text) == [exc |-> "none", text |-> text]
Raises(e) == [exc |-> e, text |-> <<>>]

TextA == <<"a">>
TextAPadded == <<" ", "a", "\n">>
TextBlank == <<" ">>
TextEmpty == <<>>
TextMulti == <<"b", "\n", "c">>

\* what remote_cmd can do on one host: return the captured output, raise
\* socket.timeout ("Timeout") or another error ("RemoteCommandFailure"), or
\* be cut short by the operator's interrupt ("KeyboardInterrupt")
Outcomes ==
    {Ok(TextA), Ok(TextAPadded), Ok(TextBlank), Ok(TextEmpty), Ok(TextMulti),
     Raises("Timeout"), Raises("RemoteCommandFailure"), Raises("KeyboardInterrupt")}

\* the answers of a set of hosts during one dispatch: every host prints "a",
\* except at most one host, which does anything remote_cmd can do
RemoteBehaviours(hosts) ==
    {[h \in hosts |-> Ok(TextA)]}
    \cup {[h \in hosts |-> IF h = d THEN o ELSE Ok(TextA)] :
            d \in hosts, o \in Outcomes \ {Ok(TextA)}}

----------------------------------------------------------------------------
(* cmd_remote_command_print_result *)

\* the text compared and printed: stripped, multi-line output framed
Rendered(result) ==
    LET r == Strip(result) IN
    IF Contains(r, "\n") THEN <<"\n">> \o r \o <<"\n", "-">> ELSE r

\* cmd_remote_command_print_result(server, result, lastoutput): what is
\* printed, and the value returned
PrintResult(server, result, lastoutput) ==
    [name |-> server,
     kind |-> IF Rendered(result) # lastoutput THEN "full" ELSE "same",
     text |-> Rendered(result)]

\* info(name, command) / warning(command, name + "... done")
DoneNotice(server) == [name |-> server, kind |-> "done", text |-> <<>>]

----------------------------------------------------------------------------
(* State *)

\* ProcessPoolExecutor(max_workers=8)
max_workers == 8

NoCall == [command |-> <<>>, parallel |-> FALSE, wait |-> 0, server |-> <<>>,
           timeout |-> <<>>]
NoPool == [created |-> FALSE, tasks |-> <<>>, started |-> 0, done |-> {},
           completed |-> <<>>, collected |-> 0, lastoutput |-> <<>>, peak |-> 0]
NoRemote == [h \in {} |-> Ok(TextEmpty)]

Running == [done |-> FALSE, exc |-> "none", aborted |-> FALSE, unhandled |-> FALSE]
Returned == [done |-> TRUE, exc |-> "none", aborted |-> FALSE, unhandled |-> FALSE]

\* a variant of main without its except clause
MainCatchesNothing(e) == FALSE

\* main: "except KeyboardInterrupt: info("main", "bye")"
MainCatches(e) == e = "KeyboardInterrupt"

\* abort(): the run ends with a message
Aborted == [done |-> TRUE, exc |-> "SystemExit", aborted |-> TRUE, unhandled |-> FALSE]

\* an exception leaves cmd_remote_command; cmd_sshcmd catches socket.timeout
\* alone and calls abort()
Raised(caller, e) ==
    LET ab == (caller = "sshcmd" /\ e = "Timeout") IN
    [done |-> TRUE, exc |-> e, aborted |-> ab,
     unhandled |-> (~ab /\ ~MainCatches(e))]

(* VagrantArguments.workingdir *)

\* the number of assignments to the property followed in one run
MaxAssignments == 3

\* the directory the tool was started in
Cwd == <<"/", "w">>

RelPath == <<"p">>

AbsPath == <<"/", "q">>

\* None is <<>>, a path p is <<p>>
WorkingdirValues == {<<>>, <<RelPath>>, <<AbsPath>>}

\* os.path.abspath: an absolute path stays, a relative one is joined to the
\* current directory
abspath(p) == IF Head(p) = "/" THEN p ELSE Cwd \o <<"/">> \o p

\* a setter that takes every value it is given
WorkingdirOverwrites(stored, v) ==
    [stored |-> IF v # <<>> THEN <<abspath(v[1])>> ELSE <<>>, exc |-> "none"]

\* the setter of the property (lines 101-110): the stored value after the
\* assignment of v and the exception raised, if any
WorkingdirSetter(stored, v) ==
    IF stored # <<>>
    THEN [stored |-> stored, exc |-> "AssertionError"]
    ELSE IF v # <<>>
         THEN [stored |-> <<abspath(v[1])>>, exc |-> "none"]
         ELSE [stored |-> stored, exc |-> "none"]

\* self.__workingdir = None (line 40)
NoWorkingdir == [stored |-> <<>>, assigned |-> <<>>]

Assigned(wd, v) ==
    [stored |-> WorkingdirSetter(wd.stored, v).stored, assigned |-> Append(wd.assigned, v)]

\* get_working_directory: the directory of the Vagrantfile that was found is
\* assigned (1316, 1322, 1332); that directory exists, so line 1335 is not
\* reached on this path
get_working_directory(wd, vf) ==
    IF HasVagrantfile(vf) THEN Assigned(wd, <<Cwd>>) ELSE wd

\* one assignment "commandline.workingdir = v", as lines 1316-1335 and
\* 1690-1698 make them
AssignWorkingdir(v) ==
    /\ pc = "idle"
    /\ op \in {"none", "workingdir"}
    /\ Len(workingdir.assigned) < MaxAssignments
    /\ op' = "workingdir"
    /\ workingdir' = Assigned(workingdir, v)
    /\ outcome' = IF WorkingdirSetter(workingdir.stored, v).exc = "none" THEN Returned
                  ELSE Raised("workingdir", WorkingdirSetter(workingdir.stored, v).exc)
    /\ UNCHANGED <<vagrantfile, osx, cache, pc, call, dir, vmnames, idx, remote, execLog,
                   reports, pauses, pool, prevDir, commandline, uploads, tries>>

\* VagrantArguments.__init__: no <args>, parallel False, wait 0
NoCommandline == [args |-> <<>>, parallel |-> FALSE, wait |-> 0]

Vagrantfiles ==
    {[exists |-> FALSE, num |-> <<>>], [exists |-> TRUE, num |-> <<>>]}
    \cup {[exists |-> TRUE, num |-> <<n>>] : n \in 0..MaxInstances}

\* the cache files an earlier run can have left: none, one cut short while it
\* was written, or the names of the instance count declared at that time
Caches(o) ==
    {NoCache, CorruptCache} \cup {PickleOf(SynthNames(m, o)) : m \in 1..MaxInstances}

Init ==
    /\ vagrantfile \in Vagrantfiles
    /\ osx \in BOOLEAN
    /\ cache \in Caches(osx)
    /\ pc = "idle"
    /\ op = "none"
    /\ call = NoCall
    /\ dir = NoDir
    /\ vmnames = <<>>
    /\ idx = 0
    /\ remote = NoRemote
    /\ execLog = <<>>
    /\ reports = <<>>
    /\ pauses = <<>>
    /\ pool = NoPool
    /\ outcome = Returned
    /\ prevDir = NoDir
    /\ commandline = NoCommandline
    /\ uploads = <<>>
    /\ workingdir = NoWorkingdir
    /\ tries = <<>>

----------------------------------------------------------------------------
(* get_vm_names called on its own, as cmd_statuscluster and others do *)

CallGetVmNames ==
    /\ pc = "idle"
    /\ op \in {"none", "get_vm_names"}
    /\ \E tool \in ToolBehaviours :
        LET d == get_vm_names(vagrantfile, osx, cache, tool, FALSE) IN
        /\ dir' = d
        /\ cache' = d.cache
        /\ outcome' = [done |-> TRUE, exc |-> d.exc, aborted |-> FALSE,
                       unhandled |-> (d.exc # "none")]
    /\ prevDir' = IF op = "get_vm_names" THEN dir ELSE NoDir
    /\ op' = "get_vm_names"
    /\ call' = NoCall
    /\ vmnames' = <<>>
    /\ idx' = 0
    /\ remote' = NoRemote
    /\ execLog' = <<>>
    /\ reports' = <<>>
    /\ pauses' = <<>>
    /\ pool' = NoPool
    /\ UNCHANGED <<vagrantfile, osx, pc, commandline, uploads, workingdir, tries>>

----------------------------------------------------------------------------
(* cmd_remote_command *)

Invocation(host, cmd, timeout) == [host |-> host, cmd |-> cmd, timeout |-> timeout]

\* a variant that leaves the wait as it was supplied
SuppliedWait(parallel, wait) == wait

\* lines 650-654: parallel mode resets the wait
EffectiveWait(parallel, wait) == IF parallel /\ wait # 0 THEN 0 ELSE wait

\* a variant without the "command not in vmnames" test of line 665
NeverSkipped(command, names) == FALSE

\* line 665: nothing is run when the command is the name of a member
FanOutSkipped(command, names) == command \in Range(names)

\* lines 704-709: a server was given; the command goes to server + '.a8.nl',
\* whatever the server string is, without a look at the member list
SingleTarget(command, server) ==
    \E o \in Outcomes :
        /\ execLog' = <<Invocation(HostOf(server), command, <<>>)>>
        /\ remote' = [h \in {HostOf(server)} |-> o]
        /\ IF o.exc # "none"
           THEN /\ outcome' = Raised("sshcmd", o.exc)
                /\ reports' = <<>>
           ELSE /\ outcome' = Returned
                \* if result: (no strip)
                /\ reports' = IF o.text # <<>>
                              THEN <<PrintResult(server, o.text, <<>>)>>
                              ELSE <<>>
        /\ pc' = "idle"
        /\ dir' = NoDir
        /\ vmnames' = <<>>
        /\ pool' = NoPool
        /\ UNCHANGED cache

\* a variant that creates the pool only for two or more commands
UsesPoolForSeveral(parallel, names) == parallel /\ Len(names) > 1

\* lines 671-672 and 694-695: in parallel mode every member adds a command,
\* and the pool is created if len(commands) > 0
UsesPool(parallel, names) == parallel /\ Len(names) > 0

\* lines 662-703, up to the first remote command: the member list, the
\* skip test, and the choice between the serial loop and the pool
FanOut(command, parallel) ==
    \E tool \in ToolBehaviours :
    LET d == get_vm_names(vagrantfile, osx, cache, tool, FALSE) IN
    /\ Len(d.ret) <= MaxFanOut
    /\ dir' = d
    /\ cache' = d.cache
    /\ execLog' = <<>>
    /\ reports' = <<>>
    /\ IF d.exc # "none"
       THEN /\ outcome' = Raised("sshcmd", d.exc)
            /\ pc' = "idle"
            /\ vmnames' = <<>>
            /\ remote' = NoRemote
            /\ pool' = NoPool
       ELSE /\ vmnames' = d.ret
            /\ IF FanOutSkipped(command, d.ret) \/ d.ret = <<>>
               THEN /\ outcome' = Returned
                    /\ pc' = "idle"
                    /\ remote' = NoRemote
                    /\ pool' = NoPool
               ELSE /\ outcome' = Running
                    /\ remote' \in RemoteBehaviours({HostOf(n) : n \in Range(d.ret)})
                    /\ IF UsesPool(parallel, d.ret)
                       \* commands.append(...) for every name, then the pool
                       THEN /\ pc' = "pool"
                            /\ pool' = [NoPool EXCEPT
                                 !.created = TRUE,
                                 !.tasks = [i \in DOMAIN d.ret |-> HostOf(d.ret[i])]]
                       ELSE /\ pc' = "serial"
                            /\ pool' = NoPool

cmd_remote_command(command, parallel, wait, server, timeout) ==
    /\ call' = [command |-> command, parallel |-> parallel,
                wait |-> EffectiveWait(parallel, wait), server |-> server,
                timeout |-> timeout]
    /\ idx' = 0
    /\ pauses' = <<>>
    /\ prevDir' = NoDir
    /\ IF server = <<>>
       THEN FanOut(command, parallel)
       ELSE SingleTarget(command, server[1])

\* time.sleep(float(wait))
Slept(secs) == [kind |-> "sleep", secs |-> secs, answer |-> ""]

\* time.sleep(float(wait)) left by a KeyboardInterrupt
SleepInterrupted(secs) == [kind |-> "sleep", secs |-> secs, answer |-> "KeyboardInterrupt"]

\* query_yes_no("continue", default=True)
Prompted(answer) == [kind |-> "prompt", secs |-> 0, answer |-> answer]

\* a variant of the loop that walks the member list from its end
NextMemberReversed(names, i) == names[Len(names) - i]

\* for name in vmnames: the member of the iteration after i finished ones
NextMember(names, i) == names[i + 1]

\* the serial loop is left: len(commands) is 0, the function returns
SerialAdvance ==
    /\ idx' = idx + 1
    /\ IF idx + 1 = Len(vmnames)
       THEN pc' = "idle" /\ outcome' = Returned
       ELSE pc' = "serial" /\ UNCHANGED outcome

\* lines 668-692, one iteration of the serial loop up to the pause
SerialStep ==
    /\ pc = "serial"
    /\ LET name == NextMember(vmnames, idx)
           o == remote[HostOf(name)]
       IN
        /\ execLog' = Append(execLog, Invocation(HostOf(name), call.command, call.timeout))
        /\ IF o.exc # "none"
           \* nothing in the loop catches what remote_cmd raises
           THEN /\ outcome' = Raised(op, o.exc)
                /\ pc' = "idle"
                /\ UNCHANGED <<reports, pauses, idx>>
           ELSE /\ reports' = Append(reports,
                        IF Strip(o.text) # <<>>
                        THEN PrintResult(name, o.text, <<>>)
                        ELSE DoneNotice(name))
                /\ IF call.wait = -1
                   THEN /\ pc' = "confirm"
                        /\ UNCHANGED <<pauses, idx, outcome>>
                   ELSE \E interrupted \in BOOLEAN :
                        IF interrupted
                        \* the interrupt arrives in time.sleep: nothing in
                        \* cmd_remote_command or cmd_sshcmd catches it
                        THEN /\ pauses' = Append(pauses, SleepInterrupted(call.wait))
                             /\ outcome' = Raised(op, "KeyboardInterrupt")
                             /\ pc' = "idle"
                             /\ UNCHANGED idx
                        ELSE /\ pauses' = Append(pauses, Slept(call.wait))
                             /\ SerialAdvance
    /\ UNCHANGED <<vagrantfile, osx, cache, op, call, dir, vmnames, remote, pool, prevDir, commandline, uploads, workingdir, tries>>

ConfirmAnswers == {"yes", "no", "KeyboardInterrupt"}

\* a variant in which no answer ends the loop
NeverLeavesLoop(answer) == FALSE

\* lines 684-690: "if query_yes_no(...) is False: break" and
\* "except KeyboardInterrupt: ... break"
LeavesLoop(answer) == answer # "yes"

\* lines 682-690: query_yes_no("continue"); False or an interrupt leaves the loop
Confirm(answer) ==
    /\ pc = "confirm"
    /\ pauses' = Append(pauses, Prompted(answer))
    /\ IF ~LeavesLoop(answer)
       THEN SerialAdvance
       ELSE pc' = "idle" /\ outcome' = Returned /\ UNCHANGED idx
    /\ UNCHANGED <<vagrantfile, osx, cache, op, call, dir, vmnames, remote,
                   execLog, reports, pool, prevDir, commandline, uploads, workingdir, tries>>

----------------------------------------------------------------------------
(* The worker pool of the parallel fan-out, lines 694-703 *)

RunningTasks(p) == (1..p.started) \ p.done

\* a worker process takes the next submitted call: remote_cmd_map runs
\* remote_cmd(server, cmd, username, keypath), without a timeout argument
PoolStartTask ==
    /\ pc = "pool"
    /\ pool.started < Len(pool.tasks)
    /\ Cardinality(RunningTasks(pool)) < max_workers
    /\ LET t == pool.started + 1 IN
        /\ pool' = [pool EXCEPT !.started = t,
                                !.peak = IF Cardinality(RunningTasks(pool)) + 1 > @
                                         THEN Cardinality(RunningTasks(pool)) + 1 ELSE @]
        /\ execLog' = Append(execLog, Invocation(pool.tasks[t], call.command, <<>>))
    /\ UNCHANGED <<vagrantfile, osx, cache, pc, op, call, dir, vmnames, idx, remote,
                   reports, pauses, outcome, prevDir, commandline, uploads, workingdir, tries>>

\* a running remote command ends, in any order
PoolCompleteTask(t) ==
    /\ pc = "pool"
    /\ t \in RunningTasks(pool)
    /\ pool' = [pool EXCEPT !.done = @ \cup {t}, !.completed = Append(@, t)]
    /\ UNCHANGED <<vagrantfile, osx, cache, pc, op, call, dir, vmnames, idx, remote,
                   execLog, reports, pauses, outcome, prevDir, commandline, uploads, workingdir, tries>>

\* a variant that keeps the first output printed for all later comparisons
FirstOutput(before, printed) == IF before = <<>> THEN printed ELSE before

\* lastoutput = cmd_remote_command_print_result(...): the text just printed
\* replaces the one kept before
LastOutput(before, printed) == printed

\* a variant that hands out the results in the order of completion
NextCompleted(p) ==
    IF p.collected < Len(p.completed) THEN p.completed[p.collected + 1] ELSE 0

\* executor.map's iterator: the result handed out next is that of the next
\* submitted call, in the order of the commands list
NextResult(p) == p.collected + 1

\* the loop over executor.map's iterator: the results come in the order of
\* the submitted commands, each as soon as its call has ended; a call that
\* raised raises here, the calls not yet started are cancelled, the running
\* ones are waited for, and the exception leaves cmd_remote_command
PoolCollect ==
    /\ pc = "pool"
    /\ pool.collected < Len(pool.tasks)
    /\ NextResult(pool) \in pool.done
    /\ LET t == NextResult(pool)
           host == pool.tasks[t]
           o == remote[host]
       IN
        IF o.exc # "none"
        THEN /\ outcome' = Raised(op, o.exc)
             /\ pc' = "idle"
             /\ pool' = [pool EXCEPT
                    !.done = 1..pool.started,
                    !.completed = @ \o SelectSeq([i \in 1..pool.started |-> i],
                                                 LAMBDA i : i \notin pool.done)]
             /\ UNCHANGED reports
        ELSE /\ IF Strip(o.text) # <<>>
                THEN /\ reports' = Append(reports,
                            PrintResult(ShortName(host), o.text, pool.lastoutput))
                     /\ pool' = [pool EXCEPT !.collected = @ + 1,
                                             !.lastoutput = LastOutput(@, Rendered(o.text))]
                ELSE /\ reports' = Append(reports, DoneNotice(ShortName(host)))
                     /\ pool' = [pool EXCEPT !.collected = @ + 1]
             /\ IF pool.collected + 1 = Len(pool.tasks)
                THEN pc' = "idle" /\ outcome' = Returned
                ELSE UNCHANGED <<pc, outcome>>
    /\ UNCHANGED <<vagrantfile, osx, cache, op, call, dir, vmnames, idx, remote,
                   execLog, pauses, prevDir, commandline, uploads, workingdir, tries>>

----------------------------------------------------------------------------
(* cmd_sshcmd *)

Ls == <<"l", "s">>
All == <<"a", "l", "l">>
Web == <<"w", "e", "b">>
FirstMember(o) == NamePrefix(o) \o <<"1">>
\* the command text "ls a:b", which names no target
LsColon == <<"l", "s", " ", "a", ":", "b">>

\* the <args> of "vckube sshcmd" that are tried
SshcmdArgs(o) ==
    {Ls, FirstMember(o), All \o <<":">> \o Ls, FirstMember(o) \o <<":">> \o Ls,
     Web \o <<":">> \o Ls, LsColon}

Waits == {0, 2, -1}

\* lines 863-868: "server:command"
SshcmdServer(arg) == IF Contains(arg, ":") THEN <<Split(arg, ":")[1]>> ELSE <<>>
SshcmdCommand(arg) == IF Contains(arg, ":") THEN Split(arg, ":")[2] ELSE arg

\* cmd_sshcmd with commandline.args[0] = arg
cmd_sshcmd(arg, parallel, wait) ==
    /\ pc = "idle"
    /\ op = "none"
    /\ op' = "sshcmd"
    /\ commandline' = [args |-> <<arg>>, parallel |-> parallel, wait |-> wait]
    /\ cmd_remote_command(SshcmdCommand(arg), parallel, wait, SshcmdServer(arg), <<5>>)
    /\ UNCHANGED <<vagrantfile, osx, uploads, workingdir, tries>>

\* cmd_sshcmd without <args>: cmd stays None and '":" in cmd' raises
\* TypeError before cmd_remote_command is called
cmd_sshcmd_no_args ==
    /\ pc = "idle"
    /\ op = "none"
    /\ op' = "sshcmd"
    /\ outcome' = Raised("sshcmd", "TypeError")
    /\ UNCHANGED <<vagrantfile, osx, cache, pc, call, dir, vmnames, idx, remote,
                   execLog, reports, pauses, pool, prevDir, commandline, uploads, workingdir, tries>>

----------------------------------------------------------------------------
(* cmd_connect_ssh *)

SshCore == <<"s", "s", "h">>
VagrantSsh == <<"v", "a", "g", "r", "a", "n", "t", " ", "s", "s", "h">>
InvokeShell == <<"i", "n", "v", "o", "k", "e">>

\* the <server> arguments of "vckube ssh" that are tried
ConnectTargets(o) ==
    {All, Web, FirstMember(o)} \cup {Str(k) : k \in 0..(MaxInstances + 1)}

\* lines 199-205: index stays 1 for a member name, is int(server) for a
\* number, and None where int() raises ValueError
ConnectIndex(server, names) ==
    IF server \in Range(names) THEN <<1>> ELSE ParseInt(server)

\* a variant of the loop that counts the members from 0
MemberAtIndexFromZero(names, k) ==
    IF k + 1 \in DOMAIN names THEN <<names[k + 1]>> ELSE <<>>

\* lines 216-219: cnt runs from 1 along vmnames; the member with
\* index == cnt, none if the loop ends without a match
MemberAtIndex(names, k) ==
    IF k \in DOMAIN names THEN <<names[k]>> ELSE <<>>

\* the members the loop of lines 216-247 connects to, in order
ConnectList(server, names) ==
    IF server = All THEN names
    ELSE MemberAtIndex(names, ConnectIndex(server, names)[1])

\* "vckube ssh <server>" up to the first connection
cmd_connect_ssh(server) ==
    /\ pc = "idle"
    /\ op = "none"
    /\ op' = "connect_ssh"
    /\ commandline' = [NoCommandline EXCEPT !.args = <<server>>]
    /\ call' = [NoCall EXCEPT !.server = <<server>>]
    /\ idx' = 0
    /\ reports' = <<>>
    /\ pauses' = <<>>
    /\ pool' = NoPool
    /\ remote' = NoRemote
    /\ prevDir' = NoDir
    /\ \E tool \in ToolBehaviours :
        LET d == get_vm_names(vagrantfile, osx, cache, tool, FALSE)
            index == ConnectIndex(server, d.ret)
        IN
        /\ server = All => Len(d.ret) <= MaxFanOut
        /\ dir' = d
        /\ cache' = d.cache
        /\ IF d.exc # "none"
           THEN /\ outcome' = Raised("connect_ssh", d.exc)
                /\ pc' = "idle"
                /\ vmnames' = <<>>
                /\ execLog' = <<>>
           ELSE IF server = All \/ (server \notin Range(d.ret) /\ index # <<>>)
           THEN /\ vmnames' = ConnectList(server, d.ret)
                /\ execLog' = <<>>
                /\ IF ConnectList(server, d.ret) = <<>>
                   THEN pc' = "idle" /\ outcome' = Returned
                   ELSE pc' = "ssh" /\ outcome' = Running
           ELSE IF server \in Range(d.ret)
           THEN /\ vmnames' = <<server>>
                /\ execLog' = <<Invocation(server, VagrantSsh, <<>>)>>
                /\ pc' = "idle"
                /\ outcome' = Returned
           ELSE /\ vmnames' = d.ret
                /\ execLog' = <<>>
                /\ pc' = "sshprompt"
                /\ outcome' = Running
    /\ UNCHANGED <<vagrantfile, osx, uploads, workingdir, tries>>

\* how one pass of the "while True" loop ends: the exit status of
\* shell("ssh core@..."), or an exception in shell followed by the result of
\* invoke_shell, or the operator's interrupt during invoke_shell
SshResults == {"0", "1", "255", "raised 0", "raised 1", "raised interrupt"}

\* status 255 and a lost invoke_shell connection sleep a second and try again
SshTriesAgain(result) == result \in {"255", "raised 1"}

\* lines 222-247, one pass of the loop for the member at hand
ConnectSshAttempt(result) ==
    /\ pc = "ssh"
    /\ SshTriesAgain(result) => Len(pauses) < MaxSshRetries
    /\ LET host == HostOf(NextMember(vmnames, idx)) IN
        execLog' = execLog \o <<Invocation(host, SshCore, <<>>)>>
                   \o (IF result \in {"raised 0", "raised 1", "raised interrupt"}
                       THEN <<Invocation(host, InvokeShell, <<>>)>> ELSE <<>>)
    /\ IF SshTriesAgain(result)
       THEN /\ pauses' = Append(pauses, Slept(1))
            /\ UNCHANGED <<pc, idx, outcome>>
       ELSE /\ idx' = idx + 1
            /\ UNCHANGED pauses
            /\ IF idx + 1 = Len(vmnames)
               THEN pc' = "idle" /\ outcome' = Returned
               ELSE UNCHANGED <<pc, outcome>>
    /\ UNCHANGED <<vagrantfile, osx, cache, op, call, dir, vmnames, remote, reports,
                   pool, prevDir, commandline, uploads, workingdir, tries>>

\* lines 253-262: the server is no member, no number and not "all"; the
\* operator picks one of the names offered, or interrupts
ConnectSshPrompt(answer) ==
    /\ pc = "sshprompt"
    /\ pc' = "idle"
    /\ pauses' = Append(pauses, Prompted(IF answer = <<>> THEN "KeyboardInterrupt" ELSE "name"))
    /\ IF answer = <<>>
       THEN /\ outcome' = Raised(op, "KeyboardInterrupt")
            /\ UNCHANGED execLog
       ELSE /\ outcome' = Returned
            /\ execLog' = <<Invocation(answer[1], VagrantSsh, <<>>)>>
    /\ UNCHANGED <<vagrantfile, osx, cache, op, call, dir, vmnames, idx, remote, reports,
                   pool, prevDir, commandline, uploads, workingdir, tries>>

----------------------------------------------------------------------------
(* The reset command: cmd_driver_vagrant lines 433-439 and cmd_reset *)

\* set_gateway_and_coreostoken: the default gateway is found, or it is not
\* and the operator answers the "use 127" question
Gateways == {"found", "use 127", "no gateway"}

\* put configscripts/user-data<cnt>.yml on the host
Upload(host, cnt) == [host |-> host, file |-> cnt]

CopyUserData == <<"c", "o", "p", "y">>
Reboot == <<"r", "e", "b", "o", "o", "t">>

\* how the hosts answer during a reset: as in a fan-out for the short member
\* lists, and every host answering for the longest one
ResetBehaviours(hosts) ==
    IF Cardinality(hosts) <= MaxFanOut THEN RemoteBehaviours(hosts)
    ELSE {[h \in hosts |-> Ok(TextA)]}

\* "vckube reset": a project is required (line 393); the user-data files
\* are listed with get_num_instances (434); gateway and token are written
\* (438); cmd_reset writes the new configuration, runs "vagrant up" and
\* takes the members from get_vm_names (752). Nothing on this path removes
\* .cl or the cache file in it.
cmd_driver_reset(wait, gateway) ==
    /\ pc = "idle"
    /\ op = "none"
    /\ op' = "reset"
    /\ commandline' = [args |-> <<>>, parallel |-> FALSE, wait |-> wait]
    /\ call' = NoCall
    /\ idx' = 0
    /\ execLog' = <<>>
    /\ reports' = <<>>
    /\ pauses' = <<>>
    /\ uploads' = <<>>
    /\ workingdir' = get_working_directory(workingdir, vagrantfile)
    /\ pool' = NoPool
    /\ prevDir' = NoDir
    /\ IF \/ ~HasVagrantfile(vagrantfile)
          \/ get_num_instances(vagrantfile).exc # "none"
          \/ gateway = "no gateway"
       THEN /\ outcome' = IF ~HasVagrantfile(vagrantfile) THEN Aborted
                          ELSE IF get_num_instances(vagrantfile).exc # "none"
                          THEN Raised("reset", get_num_instances(vagrantfile).exc)
                          ELSE Aborted
            /\ pc' = "idle"
            /\ dir' = NoDir
            /\ vmnames' = <<>>
            /\ remote' = NoRemote
            /\ UNCHANGED cache
       ELSE \E tool \in ToolBehaviours :
            LET d == get_vm_names(vagrantfile, osx, cache, tool, FALSE) IN
            /\ Len(d.ret) \in (0..MaxFanOut) \cup {MaxInstances}
            /\ dir' = d
            /\ cache' = d.cache
            /\ IF d.exc # "none"
               THEN /\ outcome' = Raised("reset", d.exc)
                    /\ pc' = "idle"
                    /\ vmnames' = <<>>
                    /\ remote' = NoRemote
               ELSE /\ vmnames' = d.ret
                    /\ IF d.ret = <<>>
                       THEN /\ outcome' = Returned
                            /\ pc' = "idle"
                            /\ remote' = NoRemote
                       ELSE /\ outcome' = Running
                            /\ pc' = "reset"
                            /\ remote' \in ResetBehaviours({HostOf(n) : n \in Range(d.ret)})
    /\ UNCHANGED <<vagrantfile, osx, tries>>

\* the loop of cmd_reset is left by its end or by a break
ResetAdvance ==
    /\ idx' = idx + 1
    /\ IF idx + 1 = Len(vmnames)
       THEN pc' = "idle" /\ outcome' = Returned
       ELSE pc' = "reset" /\ UNCHANGED outcome

\* lines 762-787, one iteration up to the pause: scp_run puts
\* user-data<cnt>.yml, remote_cmd copies it into place, remote_cmd reboots
ResetStep ==
    /\ pc = "reset"
    /\ LET name == NextMember(vmnames, idx)
           host == HostOf(name)
           o == remote[host]
       IN
        /\ uploads' = Append(uploads, Upload(host, idx + 1))
        /\ IF o.exc # "none"
           THEN /\ execLog' = Append(execLog, Invocation(host, CopyUserData, <<>>))
                /\ outcome' = Raised(op, o.exc)
                /\ pc' = "idle"
                /\ UNCHANGED <<pauses, idx>>
           ELSE /\ execLog' = execLog \o <<Invocation(host, CopyUserData, <<>>),
                                           Invocation(host, Reboot, <<>>)>>
                /\ IF commandline.wait = -1
                   THEN /\ pc' = "resetpause"
                        /\ UNCHANGED <<pauses, idx, outcome>>
                   ELSE /\ pauses' = Append(pauses, Slept(commandline.wait))
                        /\ ResetAdvance
    /\ UNCHANGED <<vagrantfile, osx, cache, op, call, dir, vmnames, remote, reports,
                   pool, prevDir, commandline, workingdir, tries>>

\* what the operator types at "press enter to continue (q=quit)"; the text
\* goes through eval(): an empty line is a SyntaxError, a bare q a NameError,
\* a quoted string is that string
ResetAnswers == {"", "q", "'q'", "''", "KeyboardInterrupt"}

\* lines 776-785
ResetPause(answer) ==
    /\ pc = "resetpause"
    /\ pauses' = Append(pauses, Prompted(answer))
    /\ CASE answer = "" -> pc' = "idle" /\ outcome' = Raised(op, "SyntaxError") /\ UNCHANGED idx
         [] answer = "q" -> pc' = "idle" /\ outcome' = Raised(op, "NameError") /\ UNCHANGED idx
         [] answer = "''" -> ResetAdvance
         [] OTHER -> pc' = "idle" /\ outcome' = Returned /\ UNCHANGED idx
    /\ UNCHANGED <<vagrantfile, osx, cache, op, call, dir, vmnames, remote, execLog,
                   reports, pool, prevDir, commandline, uploads, workingdir, tries>>

----------------------------------------------------------------------------
(* The destroy command: cmd_destroy_vagrant_cluster *)

\* "vagrant destroy -f" ends well or cmd_run raises; either way the finally
\* clause removes the project directory, Vagrantfile and .cl included
cmd_destroy_vagrant_cluster(destroyed) ==
    /\ pc = "idle"
    /\ op = "none"
    /\ op' = "destroy"
    /\ IF ~HasVagrantfile(vagrantfile)
       THEN /\ outcome' = Aborted
            /\ UNCHANGED <<vagrantfile, cache>>
       ELSE /\ outcome' = IF destroyed THEN Returned
                          ELSE Raised("destroy", "CallCommandException")
            /\ vagrantfile' = [exists |-> FALSE, num |-> <<>>]
            /\ cache' = NoCache
    /\ UNCHANGED <<osx, pc, call, dir, vmnames, idx, remote, execLog, reports, pauses,
                   pool, prevDir, commandline, uploads, tries>>
    /\ workingdir' = get_working_directory(workingdir, vagrantfile)

----------------------------------------------------------------------------
(* The restartvmware command: cmd_restart_vmware *)

\* for cnt in range(1, 15): the last value of cnt
LastAttempt == 14

\* attempts 1 to 4 go through cmd_run, which raises CallCommandException
\* when the command fails; later ones through os.system, which raises nothing
RunsThrough(cnt) == IF cnt > 4 THEN "os.system" ELSE "cmd_run"

\* a loop that is left by the first attempt that went well, whatever its number
LeavesOnSuccessOnly(cnt, ok) == ok

\* the two breaks: after the os.system attempt with cnt > 6 (line 817), and
\* after a cmd_run attempt that raised nothing (line 829)
LeavesRestartLoop(cnt, ok) == IF cnt > 4 THEN cnt > 6 ELSE ok

\* "vckube restartvmware" needs no project (line 393)
cmd_restart_vmware ==
    /\ pc = "idle"
    /\ op = "none"
    /\ op' = "restartvmware"
    /\ pc' = "restart"
    /\ outcome' = Running
    /\ tries' = <<>>
    /\ workingdir' = get_working_directory(workingdir, vagrantfile)
    /\ UNCHANGED <<vagrantfile, osx, cache, call, dir, vmnames, idx, remote, execLog,
                   reports, pauses, pool, prevDir, commandline, uploads>>

\* one pass of the loop: stop and start of the network service; ok says
\* that both commands ended with status 0
RestartAttempt(ok) ==
    /\ pc = "restart"
    /\ LET cnt == Len(tries) + 1 IN
        /\ tries' = Append(tries, [cnt |-> cnt, via |-> RunsThrough(cnt), ok |-> ok])
        /\ IF LeavesRestartLoop(cnt, ok) \/ cnt = LastAttempt
           THEN pc' = "idle" /\ outcome' = Returned
           ELSE UNCHANGED <<pc, outcome>>
    /\ UNCHANGED <<vagrantfile, osx, cache, op, call, dir, vmnames, idx, remote, execLog,
                   reports, pauses, pool, prevDir, commandline, uploads, workingdir>>

----------------------------------------------------------------------------
(* The createproject command: cmd_createproject_driver *)

\* how cmd_createproject and "vagrant halt" went (lines 338-342): an
\* exception before any file was written, an exception after the project
\* files were written, or no exception
Creations == {"failed early", "failed late", "created"}

\* the directory set_working_dir stores for the new project (line 1698)
ProjectDir == Cwd \o <<"/">> \o RelPath

\* a loop that goes on after "vagrant up" went well
IgnoresSuccess(ok) == FALSE

\* line 347-348: try_cnt = 5 and break after a "vagrant up" that raised nothing
StopsBringUp(ok) == ok

\* while try_cnt < 5 (line 343)
TriesAgain(try_cnt) == try_cnt < 5

\* cmd_createproject_driver up to the loop: an existing project is refused;
\* cmd_createproject writes the Vagrantfile with the instance count that
\* was entered, and localize_config removes .cl (line 1436)
cmd_createproject_driver(creation, numinstance) ==
    /\ pc = "idle"
    /\ op = "none"
    /\ op' = "createproject"
    /\ tries' = <<>>
    /\ IF HasVagrantfile(vagrantfile) \/ creation = "failed early"
       THEN /\ outcome' = Aborted
            /\ workingdir' = get_working_directory(workingdir, vagrantfile)
            /\ UNCHANGED <<vagrantfile, cache, pc>>
       ELSE /\ vagrantfile' = [exists |-> TRUE, num |-> <<numinstance>>]
            /\ cache' = NoCache
            /\ workingdir' = Assigned(workingdir, <<ProjectDir>>)
            /\ IF creation = "created"
               THEN pc' = "bringup" /\ outcome' = Running
               ELSE pc' = "idle" /\ outcome' = Aborted
    /\ UNCHANGED <<osx, call, dir, vmnames, idx, remote, execLog, reports, pauses, pool,
                   prevDir, commandline, uploads>>

\* one pass of the loop of lines 343-351; the passes made so far all raised
\* CallCommandException, so try_cnt is their number
BringUpAttempt(ok) ==
    /\ pc = "bringup"
    /\ LET try_cnt == Len(tries) IN
        /\ TriesAgain(try_cnt)
        /\ tries' = Append(tries, [cnt |-> try_cnt + 1, via |-> "cmd_run", ok |-> ok])
        /\ IF StopsBringUp(ok) \/ ~TriesAgain(try_cnt + 1)
           THEN pc' = "idle" /\ outcome' = Returned
           ELSE UNCHANGED <<pc, outcome>>
    /\ UNCHANGED <<vagrantfile, osx, cache, op, call, dir, vmnames, idx, remote, execLog,
                   reports, pauses, pool, prevDir, commandline, uploads, workingdir>>

----------------------------------------------------------------------------
(* main: one command per run of the tool; the files stay, the rest is gone *)

ProcessExit ==
    /\ pc = "idle"
    /\ op # "none"
    /\ op' = "none"
    /\ call' = NoCall
    /\ dir' = NoDir
    /\ vmnames' = <<>>
    /\ idx' = 0
    /\ remote' = NoRemote
    /\ execLog' = <<>>
    /\ reports' = <<>>
    /\ pauses' = <<>>
    /\ pool' = NoPool
    /\ outcome' = Returned
    /\ prevDir' = NoDir
    /\ commandline' = NoCommandline
    /\ uploads' = <<>>
    /\ workingdir' = NoWorkingdir
    /\ tries' = <<>>
    /\ UNCHANGED <<vagrantfile, osx, cache, pc>>

----------------------------------------------------------------------------

Next ==
    \/ CallGetVmNames
    \/ ProcessExit
    \/ \E arg \in SshcmdArgs(osx), parallel \in BOOLEAN, wait \in Waits :
          cmd_sshcmd(arg, parallel, wait)
    \/ cmd_sshcmd_no_args
    \/ \E wait \in Waits, gateway \in Gateways : cmd_driver_reset(wait, gateway)
    \/ ResetStep
    \/ \E answer \in ResetAnswers : ResetPause(answer)
    \/ \E destroyed \in BOOLEAN : cmd_destroy_vagrant_cluster(destroyed)
    \/ \E v \in WorkingdirValues : AssignWorkingdir(v)
    \/ cmd_restart_vmware
    \/ \E creation \in Creations, numinstance \in 1..MaxInstances :
          cmd_createproject_driver(creation, numinstance)
    \/ \E ok \in BOOLEAN : BringUpAttempt(ok)
    \/ \E ok \in BOOLEAN : RestartAttempt(ok)
    \/ \E server \in ConnectTargets(osx) : cmd_connect_ssh(server)
    \/ \E result \in SshResults : ConnectSshAttempt(result)
    \/ \E answer \in {<<>>} \cup {<<n>> : n \in Range(vmnames)} : ConnectSshPrompt(answer)
    \/ SerialStep
    \/ \E answer \in ConfirmAnswers : Confirm(answer)
    \/ PoolStartTask
    \/ \E t \in 1..MaxInstances : PoolCompleteTask(t)
    \/ PoolCollect

Spec == Init /\ [][Next]_vars

----------------------------------------------------------------------------
(* Vocabulary of the properties *)

\* a step in which get_vm_names runs: on its own or inside a fan-out
GetVmNamesStep == pc = "idle" /\ op' # "none" /\ dir'.attempts > 0

\* no element of l is greater than a later one
IsSorted(l) == \A i, j \in DOMAIN l : i < j => ~StrLess(l[j], l[i])

\* l and m hold the same distinct strings
SameNames(l, m) ==
    /\ Len(l) = Len(m)
    /\ Range(l) = Range(m)
    /\ Cardinality(Range(l)) = Len(l)

\* the member names a cache file holds; none when there is no file
NamesInCache(c) == IF c.state = "ok" THEN {c.entries[i].name : i \in DOMAIN c.entries} ELSE {}

ExpectedPrefix == IF osx THEN <<"c", "o", "r", "e">> ELSE <<"n", "o", "d", "e">>
ExpectedNames(n) == {ExpectedPrefix \o Str(i) : i \in 1..n}

\* cmd_remote_command has ended, by returning or by an exception
SshcmdDone == op = "sshcmd" /\ outcome.done

\* a finished fan-out (no server given) over a member list that resolved
FanOutDone == SshcmdDone /\ call.server = <<>> /\ dir.attempts > 0 /\ dir.exc = "none"

AllSucceed == \A h \in DOMAIN remote : remote[h].exc = "none"
\* a remote command fails by itself (an interrupt is no failure of the host)
SomeFails == \E h \in DOMAIN remote : remote[h].exc \notin {"none", "KeyboardInterrupt"}

HostsRun == [i \in DOMAIN execLog |-> execLog[i].host]
NamesReported == [i \in DOMAIN reports |-> reports[i].name]
HostsOf(names) == [i \in DOMAIN names |-> HostOf(names[i])]

\* no prompt was answered with anything but yes and no sleep was interrupted
NeverStopped == \A i \in DOMAIN pauses : pauses[i].answer \in {"yes", ""}

\* the members of the project as get_vm_names resolves them
KnownMembers == Range(get_vm_names(vagrantfile, osx, cache, ToolUp, FALSE).ret)

----------------------------------------------------------------------------
(* C1 *)

\* C1: with a Vagrantfile and a readable cache file, get_vm_names returns the
\* names stored in the cache, sorted, reads no instance count, queries no
\* tool and leaves the cache file as it is.
C1_CacheIsAuthoritative ==
    [][(GetVmNamesStep /\ vagrantfile.exists /\ cache.state = "ok") =>
        /\ dir'.exc = "none"
        /\ SameNames(dir'.ret, NamesOf(cache.entries))
        /\ IsSorted(dir'.ret)
        /\ dir'.countReads = 0
        /\ dir'.toolQueries = 0
        /\ dir'.cacheWrites = 0
        /\ cache' = cache]_vars

\* a call served from a cache that is stale (another count is declared now)
\* and whose stored order is not the sorted order
C1_Witness ==
    /\ op = "get_vm_names"
    /\ dir.hit
    /\ cache.state = "ok"
    /\ dir.ret # NamesOf(cache.entries)
    /\ vagrantfile.num # <<Len(dir.ret)>>

(* C2 *)

\* C2: after a get_vm_names call that returned a non-empty list, the call
\* that follows it directly returns the same ordered list and is served from
\* the cache file, which is the one the first call wrote if it wrote one.
C2_SecondCallFromCache ==
    (op = "get_vm_names" /\ prevDir.attempts > 0 /\ prevDir.exc = "none"
        /\ prevDir.ret # <<>>) =>
        /\ dir.exc = "none"
        /\ dir.ret = prevDir.ret
        /\ dir.hit
        /\ dir.countReads = 0
        /\ dir.toolQueries = 0
        /\ dir.cacheWrites = 0
        /\ cache = prevDir.cache

\* the second of two calls, the first of which found no cache and wrote it
C2_Witness ==
    /\ op = "get_vm_names"
    /\ prevDir.attempts > 0
    /\ prevDir.cacheWrites = 1
    /\ Len(prevDir.ret) > 1
    /\ dir.hit

(* C3 *)

\* a finished serial fan-out with wait 0 over N >= 1 members in which every
\* remote command succeeded
SerialAllSucceeded ==
    /\ FanOutDone
    /\ ~call.parallel
    /\ call.wait = 0
    /\ Len(vmnames) >= 1
    /\ AllSucceed
    /\ NeverStopped

\* remote_cmd ran once per member, in the order of get_vm_names, which is
\* sorted, with the command and the caller's timeout; the reports follow
\* the same order
RanOncePerMemberInOrder ==
    /\ outcome.exc = "none"
    /\ vmnames = dir.ret
    /\ IsSorted(vmnames)
    /\ execLog = [i \in DOMAIN vmnames |->
                    Invocation(HostOf(vmnames[i]), call.command, call.timeout)]
    /\ NamesReported = vmnames

\* C3 as stated: in serial mode (no server, wait 0, every remote command
\* succeeding) remote_cmd is invoked exactly N times, once per member in
\* sorted order, and the results are reported in that order.
C3_Original == SerialAllSucceeded => RanOncePerMemberInOrder

\* C3 as amended: the same, for a command text that is not the name of a
\* member (for such a command line 665 skips the whole fan-out).
C3_SerialOncePerMemberInOrder ==
    (SerialAllSucceeded /\ call.command \notin Range(vmnames)) => RanOncePerMemberInOrder

\* a serial fan-out over three members that ran to its end
C3_Witness ==
    /\ SerialAllSucceeded
    /\ call.command \notin Range(vmnames)
    /\ Len(vmnames) = MaxFanOut
    /\ Len(execLog) = MaxFanOut
    /\ Len(reports) = MaxFanOut

(* C4 *)

\* C4: in a serial fan-out over two or more members in which remote_cmd
\* fails for one member, the failure is reported for that member, remote_cmd
\* is still invoked for every member, and cmd_remote_command returns without
\* an exception.
C4_FailureDoesNotAbort ==
    (FanOutDone /\ ~call.parallel /\ Len(vmnames) >= 2 /\ SomeFails /\ NeverStopped) =>
        /\ outcome.exc = "none"
        /\ HostsRun = HostsOf(vmnames)
        /\ NamesReported = vmnames

(* C5 *)

\* C5: a server that is neither "all" nor a known member makes the dispatch
\* fail with UnknownTarget, and remote_cmd is not invoked.
C5_UnknownTargetRejected ==
    (SshcmdDone /\ call.server # <<>> /\ call.server # <<All>>
        /\ call.server[1] \notin KnownMembers) =>
        /\ outcome.exc = "UnknownTarget"
        /\ execLog = <<>>

(* C6 *)

\* C6: with the server "all" the command runs on every member get_vm_names
\* returns, once per member, and on no other host.
C6_AllRunsOnEveryMember ==
    (SshcmdDone /\ call.server = <<All>>) =>
        /\ Range(HostsRun) = {HostOf(m) : m \in KnownMembers}
        /\ Len(execLog) = Cardinality(KnownMembers)

(* C7 *)

\* C7: a parallel fan-out over N members (of a command that is not itself a
\* member name) invokes remote_cmd exactly N times through the pool, never
\* more than max_workers at a time, and every member is once among the
\* collected results.
C7_ParallelOncePerMember ==
    (FanOutDone /\ call.parallel /\ call.command \notin Range(vmnames)) =>
        /\ Len(execLog) = Len(vmnames)
        /\ Range(HostsRun) = Range(HostsOf(vmnames))
        /\ (Len(vmnames) >= 1 => pool.created)
        /\ pool.peak <= max_workers
        /\ SameNames(NamesReported, vmnames)

(* C8 *)

\* C8: when get_vm_names returns from a resolution without a cache file
\* (Vagrantfile present), the cache file exists exactly if the returned list
\* is not empty, and then it holds exactly the returned names.
C8_CacheWrittenIffNonEmpty ==
    [][(GetVmNamesStep /\ vagrantfile.exists /\ cache.state = "absent"
            /\ dir'.exc = "none") =>
        /\ (cache'.state # "absent") <=> (dir'.ret # <<>>)
        /\ cache'.state # "absent" =>
              /\ cache'.state = "ok"
              /\ SameNames(NamesOf(cache'.entries), dir'.ret)]_vars

\* a resolution of a declared count of 0: nothing returned, no file written
C8_Witness ==
    /\ op = "get_vm_names"
    /\ vagrantfile.exists
    /\ dir.exc = "none"
    /\ dir.countReads = 1
    /\ dir.ret = <<>>
    /\ cache.state = "absent"

(* C9 *)

Node123 == << <<"n", "o", "d", "e", "1">>, <<"n", "o", "d", "e", "2">>,
              <<"n", "o", "d", "e", "3">> >>

\* C9: without a cache file and with a declared count N, get_vm_names returns
\* exactly the N names prefix + str(i), i = 1..N, with prefix "core" on OSX
\* and "node" elsewhere (node1, node2, node3 for 3), and the cache holds those
\* names afterwards.
C9_SynthesizedNames ==
    [][(GetVmNamesStep /\ vagrantfile.exists /\ cache.state = "absent"
            /\ vagrantfile.num # <<>>) =>
        LET n == vagrantfile.num[1] IN
        /\ dir'.exc = "none"
        /\ Len(dir'.ret) = n
        /\ Range(dir'.ret) = ExpectedNames(n)
        /\ (n = 3 /\ ~osx) => dir'.ret = Node123
        /\ NamesInCache(cache') = ExpectedNames(n)]_vars

\* count 3 on a host that is not OSX, resolved without a cache and written
C9_Witness ==
    /\ op = "get_vm_names"
    /\ ~osx
    /\ vagrantfile.num = <<3>>
    /\ ~dir.hit
    /\ dir.cacheWrites = 1
    /\ dir.ret = Node123

(* C10 *)

\* C10: a cache file that cannot be deserialized is treated as a miss:
\* get_vm_names raises nothing and returns the re-resolved member list.
C10_CorruptCacheIsMiss ==
    [][(GetVmNamesStep /\ vagrantfile.exists /\ cache.state = "corrupt"
            /\ vagrantfile.num # <<>>) =>
        /\ dir'.exc = "none"
        /\ Range(dir'.ret) = ExpectedNames(vagrantfile.num[1])]_vars

(* C11 *)

\* C11: where resolution depends on the virtualization tool (a Vagrantfile
\* that declares no count, no cache file) and the tool fails on every
\* attempt, get_vm_names raises nothing, returns the empty list, and has run
\* the resolution and queried the tool exactly twice.
C11_RetryOnceThenEmpty ==
    (/\ op = "get_vm_names"
     /\ dir.attempts > 0
     /\ vagrantfile.exists
     /\ vagrantfile.num = <<>>
     /\ cache.state = "absent") =>
        LET r == get_vm_names(vagrantfile, osx, cache, ToolDown, FALSE) IN
        /\ r.exc = "none"
        /\ r.ret = <<>>
        /\ r.attempts = 2
        /\ r.toolQueries = 2

(* C12 *)

\* C12: with a Vagrantfile that declares no count and no cache file,
\* get_vm_names raises nothing, queries the tool, and returns the names the
\* tool lists (none when the tool is down).
C12_LiveStatusFallback ==
    [][(GetVmNamesStep /\ vagrantfile.exists /\ vagrantfile.num = <<>>
            /\ cache.state = "absent") =>
        /\ dir'.exc = "none"
        /\ dir'.toolQueries >= 1
        /\ dir'.ret \in {<<>>, Sorted(NamesOf(LiveMachines(osx)))}]_vars

(* C13 *)

\* C13: without a Vagrantfile get_vm_names returns the empty list, raises
\* nothing, and neither reads nor writes the cache file, whatever the state
\* of that file.
C13_NoVagrantfileEmpty ==
    [][(GetVmNamesStep /\ ~vagrantfile.exists) =>
        /\ dir'.exc = "none"
        /\ dir'.ret = <<>>
        /\ ~dir'.hit
        /\ dir'.countReads = 0
        /\ dir'.toolQueries = 0
        /\ dir'.cacheWrites = 0
        /\ cache' = cache]_vars

\* a call without a Vagrantfile next to a readable cache file that holds names
C13_Witness ==
    /\ op = "get_vm_names"
    /\ dir.attempts = 1
    /\ ~vagrantfile.exists
    /\ cache.state = "ok"
    /\ Len(cache.entries) >= 2
    /\ dir.ret = <<>>
    /\ dir.exc = "none"

(* C14 *)

\* a command text without a target prefix: it holds no ':' at all, or what
\* stands before its first ':' holds a blank and so is no member name
NoTargetPrefix(arg) == ~Contains(arg, ":") \/ Contains(Split(arg, ":")[1], " ")

\* C14: a command text given to sshcmd without a target prefix, ':' inside
\* the text or not, is dispatched unchanged with server = None.
C14_NoPrefixGoesToAll ==
    (/\ SshcmdDone
     /\ commandline.args # <<>>
     /\ NoTargetPrefix(commandline.args[1])) =>
        /\ call.server = <<>>
        /\ call.command = commandline.args[1]

(* C15 *)

\* a fan-out over the member list is running or has ended
InFanOut == op = "sshcmd" /\ call.server = <<>> /\ remote # NoRemote

\* the trimmed output of the member of the i-th report
TrimmedOutput(i) == Strip(remote[HostOf(reports[i].name)].text)

\* C15: in a fan-out, serial or parallel, a member's non-blank output that
\* equals the output reported for the member just before it is rendered as
\* "same", and one that differs from it is rendered in full.
C15_SameAsPreceding ==
    InFanOut =>
        \A i \in 2..Len(reports) :
            (reports[i - 1].kind # "done" /\ reports[i].kind # "done") =>
                reports[i].kind =
                    IF TrimmedOutput(i) = TrimmedOutput(i - 1) THEN "same" ELSE "full"

(* C16 *)

\* the dispatch has returned normally after running remote commands
DispatchReturned ==
    op = "sshcmd" /\ outcome.done /\ outcome.exc = "none" /\ execLog # <<>>

\* C16: in every dispatch path each remote command that ran has its report,
\* and a result that is empty or all whitespace is reported as the short
\* done notice, never through the result printer.
C16_BlankIsDoneNotice ==
    DispatchReturned =>
        /\ Len(reports) = Len(execLog)
        /\ \A i \in DOMAIN reports :
               Strip(remote[execLog[i].host].text) = <<>> => reports[i].kind = "done"

(* C17 *)

\* a serial fan-out that asks for a confirmation after every member
SerialPrompting ==
    /\ op = "sshcmd"
    /\ call.server = <<>>
    /\ ~call.parallel
    /\ call.wait = -1
    /\ remote # NoRemote

\* C17: in a serial fan-out with wait -1 every result is followed by a
\* confirmation prompt before the next remote command starts, and after the
\* answer "no" no further remote command runs and cmd_remote_command has
\* returned without an exception.
C17_QuitStopsSerialLoop ==
    SerialPrompting =>
        /\ \A i \in DOMAIN pauses : pauses[i].kind = "prompt"
        /\ pc = "confirm" => Len(reports) = Len(pauses) + 1
        /\ pc = "serial" => Len(execLog) = Len(pauses)
        /\ \A i \in DOMAIN pauses :
               pauses[i].answer = "no" =>
                   /\ i = Len(pauses)
                   /\ Len(execLog) = i
                   /\ pc = "idle"
                   /\ outcome = Returned

\* three members, the second prompt answered "no": the third never runs
C17_Witness ==
    /\ SerialPrompting
    /\ Len(vmnames) = 3
    /\ Len(pauses) = 2
    /\ pauses[1].answer = "yes"
    /\ pauses[2].answer = "no"
    /\ Len(execLog) = 2
    /\ outcome = Returned

(* C18 *)

\* C18: a dispatch asked to run in parallel works with wait 0 whatever wait
\* was supplied: it never sleeps, never prompts, and never enters the
\* serial loop.
C18_ParallelResetsWait ==
    (op = "sshcmd" /\ commandline.args # <<>> /\ commandline.parallel) =>
        /\ call.wait = 0
        /\ pauses = <<>>
        /\ pc \notin {"serial", "confirm"}

\* a parallel fan-out over three members, started with wait -1, has ended
C18_Witness ==
    /\ op = "sshcmd"
    /\ commandline.parallel
    /\ commandline.wait = -1
    /\ call.server = <<>>
    /\ outcome = Returned
    /\ Len(execLog) = 3
    /\ Len(reports) = 3

(* C19 *)

\* C19: every remote command of a dispatch, in the serial loop, in the pool
\* and for a single named target, is run with the timeout that the caller
\* gave to cmd_remote_command.
C19_CallerTimeoutEverywhere ==
    op = "sshcmd" =>
        \A i \in DOMAIN execLog : execLog[i].timeout = call.timeout

(* C20 *)

\* C20: an existing cache file survives every step of every command but
\* reset and destroy; destroy removes it; and a reset that gets as far as
\* resolving the members does not take them from the cache file that was
\* there before the reset.
C20_CacheDeletedByResetAndDestroy ==
    [][CacheFileExists(cache) =>
        /\ op' \notin {"reset", "destroy"} => CacheFileExists(cache')
        /\ (op = "none" /\ op' = "destroy" /\ vagrantfile.exists) =>
               ~CacheFileExists(cache')
        /\ (op = "none" /\ op' = "reset" /\ cache.state = "ok" /\ dir'.attempts > 0) =>
               ~dir'.hit]_vars

(* C21 *)

\* a serial fan-out that an interrupt has ended: in remote_cmd, in the
\* sleep between two members, or at the confirmation prompt
SerialInterrupted ==
    /\ op = "sshcmd"
    /\ call.server = <<>>
    /\ ~call.parallel
    /\ remote # NoRemote
    /\ \/ outcome.exc = "KeyboardInterrupt"
       \/ \E i \in DOMAIN pauses : pauses[i].answer = "KeyboardInterrupt"

\* C21: after an interrupt in a serial fan-out the dispatch has ended, no
\* exception leaves main, no remote command is started after the one the
\* interrupt met, and the cache file is there, as member resolution left it.
C21_InterruptEndsCleanly ==
    SerialInterrupted =>
        /\ pc = "idle"
        /\ outcome.done
        /\ ~outcome.unhandled
        /\ \A i \in DOMAIN pauses :
               pauses[i].answer = "KeyboardInterrupt" =>
                   i = Len(pauses) /\ Len(execLog) = i
        /\ outcome.exc = "KeyboardInterrupt" /\ NeverStopped =>
               Len(execLog) = Len(reports) + 1
        /\ CacheFileExists(cache)
        /\ cache = dir.cache

\* three members; the interrupt meets the remote command of the second
C21_Witness ==
    /\ SerialInterrupted
    /\ Len(vmnames) = 3
    /\ outcome.exc = "KeyboardInterrupt"
    /\ NeverStopped
    /\ Len(execLog) = 2
    /\ Len(reports) = 1

(* C22 *)

\* a parallel fan-out has handed its commands to the pool
InParallelFanOut == op = "sshcmd" /\ call.server = <<>> /\ pool.created

\* C22 as stated: in parallel mode the i-th result reported is that of the
\* member whose remote command was the i-th to complete.
C22_Original ==
    InParallelFanOut =>
        \A i \in DOMAIN reports :
            reports[i].name = ShortName(pool.tasks[pool.completed[i]])

\* C22 as amended: in parallel mode the i-th result reported is that of the
\* i-th member of the sorted member list, whatever the order in which the
\* remote commands complete.
C22_ReportedInInputOrder ==
    InParallelFanOut =>
        /\ IsSorted(vmnames)
        /\ \A i \in DOMAIN reports : reports[i].name = vmnames[i]

\* three members whose remote commands completed last to first, all reported
C22_Witness ==
    /\ InParallelFanOut
    /\ outcome = Returned
    /\ pool.completed = <<3, 2, 1>>
    /\ Len(reports) = 3

(* C23 *)

\* the reports i - 2, i - 1, i are of non-blank outputs A, B, A with A # B
IsABA(i) ==
    /\ \A k \in {i - 2, i - 1, i} : reports[k].kind # "done"
    /\ TrimmedOutput(i) = TrimmedOutput(i - 2)
    /\ TrimmedOutput(i) # TrimmedOutput(i - 1)

\* C23: where three consecutive results of a fan-out are A, B, A with A
\* different from B, B and the second A are rendered in full, and so is the
\* first A when it is the first result of the fan-out: the second A is
\* compared with B alone.
C23_OnlyThePrecedingResult ==
    InFanOut =>
        \A i \in 3..Len(reports) :
            IsABA(i) =>
                /\ reports[i].kind = "full"
                /\ reports[i - 1].kind = "full"
                /\ i = 3 => reports[1].kind = "full"

\* a parallel fan-out that reported "a", then two lines, then "a" again
C23_Witness ==
    /\ InFanOut
    /\ call.parallel
    /\ outcome = Returned
    /\ Len(reports) = 3
    /\ IsABA(3)
    /\ \A k \in 1..3 : reports[k].kind = "full"

(* C24 *)

\* a dispatch that runs its command on exactly one member: a named target,
\* or a fan-out over a member list of size 1
OneMemberTargeted ==
    /\ op = "sshcmd"
    /\ execLog # <<>> \/ pool.created
    /\ call.server # <<>> \/ Len(vmnames) = 1

\* C24 as stated: a dispatch to exactly one member creates no worker pool,
\* with the parallel flag or without it.
C24_Original == OneMemberTargeted => ~pool.created

\* C24 as amended: a dispatch to a named target runs one remote command and
\* creates no worker pool, with the parallel flag or without it; a fan-out
\* over a member list of size 1 creates a pool exactly when it is asked to
\* run in parallel, and that pool runs one command.
C24_OneMemberPoolOnlyInParallelFanOut ==
    OneMemberTargeted =>
        /\ Len(execLog) <= 1
        /\ call.server # <<>> => ~pool.created
        /\ call.server = <<>> =>
               /\ pool.created = call.parallel
               /\ pool.created => Len(pool.tasks) = 1 /\ pool.peak <= 1

\* a parallel fan-out over one member has run its command in a pool
C24_Witness ==
    /\ OneMemberTargeted
    /\ call.server = <<>>
    /\ call.parallel
    /\ pool.created
    /\ pool.peak = 1
    /\ outcome = Returned
    /\ Len(reports) = 1

(* C25 *)

\* cmd_connect_ssh was given a number k with 1 <= k <= N that is not the
\* name of a member
ConnectByIndex ==
    /\ op = "connect_ssh"
    /\ dir.exc = "none"
    /\ call.server[1] \notin Range(dir.ret)
    /\ ParseInt(call.server[1]) # <<>>
    /\ ParseInt(call.server[1])[1] \in 1..Len(dir.ret)

\* C25: a target that is no member name and is the number k, 1 <= k <= N,
\* connects to the k-th member of the sorted member list: every connection
\* of the command goes to that member, and the command does not end without
\* one.
C25_IndexPicksKthMember ==
    ConnectByIndex =>
        /\ IsSorted(dir.ret)
        /\ \A i \in DOMAIN execLog :
               execLog[i].host = HostOf(dir.ret[ParseInt(call.server[1])[1]])
        /\ outcome.done => execLog # <<>>

\* ten members, target "2": the connection goes to the member numbered 10,
\* the second of the sorted list
C25_Witness ==
    /\ ConnectByIndex
    /\ Len(dir.ret) = 10
    /\ call.server = <<Str(2)>>
    /\ outcome = Returned
    /\ execLog = <<Invocation(HostOf(NamePrefix(osx) \o Str(10)), SshCore, <<>>)>>

(* C26 *)

\* C26: every file cmd_reset uploads goes to the member that carries the
\* file's index as its instance number: user-data<k>.yml to core<k> or
\* node<k>.
C26_FileIndexIsInstanceNumber ==
    op = "reset" =>
        \A i \in DOMAIN uploads :
            uploads[i].host = HostOf(ExpectedPrefix \o Str(uploads[i].file))

\* a step that assigns to commandline.workingdir
AssignsWorkingdir ==
    Len(workingdir'.assigned) = Len(workingdir.assigned) + 1

\* C27: workingdir is write-once. Once a non-None value is stored, every
\* assignment, None included, raises AssertionError and leaves the stored
\* value as it was; assigning None while nothing is stored stores nothing
\* and raises nothing.
C27_WorkingdirWriteOnce ==
    [][AssignsWorkingdir =>
        LET v == workingdir'.assigned[Len(workingdir'.assigned)] IN
        /\ workingdir.stored # <<>> =>
              /\ workingdir'.stored = workingdir.stored
              /\ outcome'.exc = "AssertionError"
        /\ (workingdir.stored = <<>> /\ v = <<>>) =>
              /\ workingdir'.stored = <<>>
              /\ outcome'.exc = "none"]_vars

\* a relative path was stored, then None was assigned: AssertionError, and
\* the absolute path is still there
C27_Witness ==
    /\ op = "workingdir"
    /\ workingdir.assigned = << <<>>, <<RelPath>>, <<>> >>
    /\ workingdir.stored = <<Cwd \o <<"/">> \o RelPath>>
    /\ outcome.exc = "AssertionError"

\* a finished fan-out whose command text is the name of a member
CommandIsMemberName == FanOutDone /\ call.command \in Range(dir.ret)

\* C28: in a fan-out without a named server, a command that equals the name
\* of a cluster member is run on no member, and cmd_remote_command returns
\* normally and reports nothing.
C28_MemberNameRunsNothing ==
    CommandIsMemberName =>
        /\ execLog = <<>>
        /\ reports = <<>>
        /\ pauses = <<>>
        /\ pool = NoPool
        /\ outcome = Returned

\* the command is the name of the first of several members
C28_Witness ==
    /\ CommandIsMemberName
    /\ Len(dir.ret) >= 2
    /\ call.command = dir.ret[1]
    /\ outcome = Returned

RestartRuns == op = "restartvmware"

FailedWith(i) == i \in DOMAIN tries /\ ~tries[i].ok

\* C29: cmd_restart_vmware ends after at most 7 stop/start attempts. After
\* an attempt among the first four that went well there is no further
\* attempt, and when the first four all fail with CallCommandException the
\* attempts 5, 6 and 7 are all made, whatever their outcome, and the loop
\* ends with the seventh.
C29_AtMostSevenAttempts ==
    RestartRuns =>
        /\ Len(tries) <= 7
        /\ pc = "restart" => Len(tries) < 7
        /\ \A i \in DOMAIN tries : tries[i].cnt = i
        /\ \A i \in DOMAIN tries : (i <= 4 /\ tries[i].ok) => Len(tries) = i /\ outcome = Returned
        /\ (outcome.done /\ \A i \in 1..4 : FailedWith(i)) =>
              /\ Len(tries) = 7
              /\ outcome = Returned
        /\ \A i \in DOMAIN tries : (i > 4) <=> tries[i].via = "os.system"

\* four failures, then attempt 5 went well and 6 and 7 were still made
C29_Witness ==
    /\ RestartRuns
    /\ outcome = Returned
    /\ Len(tries) = 7
    /\ \A i \in 1..4 : FailedWith(i)
    /\ tries[5].ok
    /\ ~tries[6].ok

\* the project was created and halted, and the bring-up loop runs or has run
BringUpRuns == op = "createproject" /\ vagrantfile.exists /\ (pc = "bringup" \/ outcome = Returned)

\* C30: once the project is created and halted, cmd_createproject_driver
\* runs "vagrant up" at most 5 times, makes no attempt after the first one
\* that went well, and returns normally, also when all 5 attempts failed
\* with CallCommandException.
C30_AtMostFiveBringUps ==
    BringUpRuns =>
        /\ Len(tries) <= 5
        /\ pc = "bringup" => Len(tries) < 5
        /\ \A i \in DOMAIN tries : tries[i].ok => Len(tries) = i /\ outcome = Returned
        /\ (\A i \in 1..5 : FailedWith(i)) => outcome = Returned
        /\ outcome.exc = "none"

\* five attempts, none went well, and the driver returned
C30_Witness ==
    /\ BringUpRuns
    /\ Len(tries) = 5
    /\ \A i \in 1..5 : FailedWith(i)
    /\ outcome = Returned

====
